---- MODULE Spec2Model ----
(***************************************************************************)
(* Model of flare's converter registry (flare/converters.py) and of the    *)
(* custom_id codec built on it (flare/internal/serde.py).                  *)
(*                                                                         *)
(* A Python str is a sequence of code points 0..255 (the latin1 alphabet   *)
(* the converters pack raw bytes into).  A Python value is a tagged record *)
(* [tag, cls, n, s]; a 64-bit float is its IEEE-754 bit pattern as four    *)
(* 16-bit words, most significant word first.  Integers stay below 2^31.   *)
(*                                                                         *)
(* Every call of get_converter goes through its lru_cache: the operators   *)
(* that model code calling get_converter take the registry state and       *)
(* return the registry state the call leaves behind.                       *)
(***************************************************************************)
EXTENDS Integers, Sequences, FiniteSets, TLC

\* ------------------------------------------------------------------ bounds
MaxCalls == 3       \* direct get_converter calls per behaviour
MaxAdds == 1        \* add_converter calls after import per behaviour
MaxFields == 2      \* fields per schema passed to serialize
MaxTrail == 2       \* length of the longest trailing string appended
MaxStack == 4       \* nested from_str calls the interpreter stack has room for

\* ------------------------------------------------------- program constants
MaxCustomIdLen == 100
CacheMaxSize == 128

\* ------------------------------------------------------------ the classes
\* Classes known to the model and their proper base classes (object left
\* out).  Color is a plain Enum with members 1 and 2, Level an IntEnum with
\* members 1 and 2, MyInt a subclass of int, Foo and Token plain classes.
Bases(c) ==
    CASE c = "bool" -> {"int"}
      [] c = "MyInt" -> {"int"}
      [] c = "Color" -> {"Enum"}
      [] c = "Level" -> {"int", "Enum"}
      [] OTHER -> {}

Classes == {"float", "int", "str", "Enum", "bool", "MyInt", "Color", "Level", "Foo", "Token", "NoneType"}

\* member values of the enum classes of the model
EnumMembers(type) == IF type \in {"Color", "Level"} THEN {1, 2} ELSE {}

\* --------------------------------------------------------------- values
Val(tag, cls, n, s) == [tag |-> tag, cls |-> cls, n |-> n, s |-> s]
NoneV == Val("none", "NoneType", 0, <<>>)
StrV(s) == Val("str", "str", 0, s)
IntV(n) == Val("int", "int", n, <<>>)
FloatV(w) == Val("float", "float", 0, w)
BoolV(b) == Val("bool", "bool", IF b THEN 1 ELSE 0, <<>>)
EnumV(cls, n) == Val("enum", cls, n, <<>>)

\* the value is an int: an int, a bool, an instance of a subclass of int
IsInt(obj) ==
    \/ obj.tag \in {"int", "bool"}
    \/ obj.tag = "enum" /\ "int" \in Bases(obj.cls)

Rep(c, n) == [i \in 1..n |-> c]

Take(s, n) == SubSeq(s, 1, IF n < Len(s) THEN n ELSE Len(s))

Drop(s, n) == SubSeq(s, (IF n < Len(s) THEN n ELSE Len(s)) + 1, Len(s))

\* ----------------------------------------------------- int <-> raw bytes
RECURSIVE bit_length(_)
bit_length(n) ==
    IF n < 0 THEN bit_length(-n)
    ELSE IF n = 0 THEN 0 ELSE 1 + bit_length(n \div 2)

RECURSIVE to_bytes(_, _)
to_bytes(n, k) ==
    IF k = 0 THEN <<>> ELSE <<n % 256>> \o to_bytes(n \div 256, k - 1)

RECURSIVE from_bytes(_)
from_bytes(b) ==
    IF b = <<>> THEN 0 ELSE Head(b) + 256 * from_bytes(Tail(b))

\* ------------------------------------------------------------- doubles
RECURSIVE BitsVal(_)
BitsVal(b) ==
    IF b = <<>> THEN 0 ELSE 2 * BitsVal(SubSeq(b, 1, Len(b) - 1)) + b[Len(b)]

\* the double nearest to the int n (exact below 2^53)
DoubleOfInt(n) ==
    IF n = 0 THEN <<0, 0, 0, 0>>
    ELSE LET a == IF n < 0 THEN -n ELSE n
             k == bit_length(a) - 1
             m == a - 2^k
             frac == [i \in 1..k |-> (m \div 2^(k - i)) % 2] \o Rep(0, 52 - k)
         IN << (IF n < 0 THEN 32768 ELSE 0) + (1023 + k) * 16 + BitsVal(SubSeq(frac, 1, 4)),
               BitsVal(SubSeq(frac, 5, 20)),
               BitsVal(SubSeq(frac, 21, 36)),
               BitsVal(SubSeq(frac, 37, 52)) >>

\* struct.pack("d", v) on the words of v: the 8 bytes, least significant first
RECURSIVE struct_pack(_)
struct_pack(w) ==
    IF w = <<>> THEN <<>>
    ELSE struct_pack(Tail(w)) \o <<Head(w) % 256, Head(w) \div 256>>

RECURSIVE WordsOf(_)
WordsOf(b) ==
    IF b = <<>> THEN <<>>
    ELSE WordsOf(SubSeq(b, 3, Len(b))) \o <<b[1] + 256 * b[2]>>

\* struct.unpack("d", b): needs a buffer of exactly 8 bytes
struct_unpack(b) ==
    IF Len(b) = 8
    THEN [err |-> "", val |-> FloatV(WordsOf(b))]
    ELSE [err |-> "struct.error", val |-> NoneV]

\* Python truthiness of a value
Truthy(obj) ==
    CASE obj.tag \in {"bool", "int"} -> obj.n # 0
      [] obj.tag = "str" -> obj.s # <<>>
      [] obj.tag = "float" ->
             \E i \in 1..Len(obj.s) : obj.s[i] % (IF i = 1 THEN 32768 ELSE 65536) # 0
      [] obj.tag = "enum" -> IF IsInt(obj) THEN obj.n # 0 ELSE TRUE
      [] OTHER -> FALSE

\* ------------------------------------------------------ result records
ToOk(out) == [err |-> "", out |-> out, awaitable |-> FALSE]
ToErr(e) == [err |-> e, out |-> <<>>, awaitable |-> FALSE]
FromOk(rem, val) == [err |-> "", rem |-> rem, val |-> val]
FromErr(e) == [err |-> e, rem |-> <<>>, val |-> NoneV]

\* ------------------------------- converters that call no other converter
StringConverter_to_str(obj) ==
    IF obj.tag # "str" THEN ToErr("TypeError")
    ELSE ToOk(to_bytes(Len(obj.s), 4) \o obj.s)

StringConverter_from_str(obj) ==
    IF obj = <<>> THEN FromErr("IndexError")
    ELSE LET length == from_bytes(<<obj[1]>>)
         IN FromOk(Drop(obj, length + 1), StrV(Drop(Take(obj, length + 1), 1)))

FloatConverter_to_str(obj) ==
    IF obj.tag = "float" THEN ToOk(struct_pack(obj.s))
    ELSE IF IsInt(obj) THEN ToOk(struct_pack(DoubleOfInt(obj.n)))
    ELSE ToErr("struct.error")

FloatConverter_from_str(obj) ==
    LET u == struct_unpack(Take(obj, 2))
    IN IF u.err # "" THEN FromErr(u.err) ELSE FromOk(Drop(obj, 2), u.val)

BoolConverter_to_str(obj) ==
    ToOk(IF Truthy(obj) THEN <<116>> ELSE <<102>>)

BoolConverter_from_str(obj) ==
    IF obj = <<>> THEN FromErr("IndexError")
    ELSE FromOk(Drop(obj, 1), BoolV(obj[1] = 116))

\* A converter class a program registers, whose to_str returns an awaitable
\* of the fragment instead of the fragment; it encodes and decodes like a
\* string.
DeferredConverter_to_str(obj) ==
    [StringConverter_to_str(obj) EXCEPT !.awaitable = (StringConverter_to_str(obj).err = "")]

DeferredConverter_from_str(obj) == StringConverter_from_str(obj)

LeafToStr(cls, obj) ==
    CASE cls = "StringConverter" -> StringConverter_to_str(obj)
      [] cls = "FloatConverter" -> FloatConverter_to_str(obj)
      [] cls = "BoolConverter" -> BoolConverter_to_str(obj)
      [] cls = "DeferredConverter" -> DeferredConverter_to_str(obj)

LeafFromStr(cls, obj) ==
    CASE cls = "StringConverter" -> StringConverter_from_str(obj)
      [] cls = "DeferredConverter" -> DeferredConverter_from_str(obj)
      [] cls = "FloatConverter" -> FloatConverter_from_str(obj)
      [] cls = "BoolConverter" -> BoolConverter_from_str(obj)

\* ------------------------------------------------------------ type hints
ClassHint(c) == [kind |-> "class", name |-> c, args |-> <<>>]
\* a subscripted form such as Literal["a"], whose typing.get_origin is o
AliasHint(o) == [kind |-> "alias", name |-> o, args |-> <<>>]
UnionHint(a, b) == [kind |-> "union", name |-> "Union", args |-> <<a, b>>]

\* inspect.isclass(t) and issubclass(t, cls), on descriptors; issubclass
\* raises TypeError when cls is not a class (typing.Literal)
_any_issubclass(t, cls) ==
    IF t \notin Classes THEN [err |-> "", val |-> FALSE]
    ELSE IF cls \notin Classes THEN [err |-> "TypeError", val |-> FALSE]
    ELSE [err |-> "", val |-> (t = cls \/ cls \in Bases(t))]

_is_union(obj) == obj.kind = "union"

_get_left(obj) == IF ~_is_union(obj) THEN obj ELSE obj.args[1]

\* typing.get_origin: "" stands for None
get_origin(h) ==
    CASE h.kind = "alias" -> h.name
      [] h.kind = "union" -> "Union"
      [] OTHER -> ""

\* ------------------------------------------------------------- registry
Reg(k, c, s) == [key |-> k, conv |-> c, sub |-> s]

\* _converters after the module body ran its six add_converter calls
BuiltinConverters ==
    << Reg("float", "FloatConverter", TRUE),
       Reg("int", "IntConverter", TRUE),
       Reg("str", "StringConverter", TRUE),
       Reg("Literal", "StringConverter", FALSE),
       Reg("Enum", "EnumConverter", TRUE),
       Reg("bool", "BoolConverter", FALSE) >>

Keys(reg) == {reg[i].key : i \in 1..Len(reg)}

IndexOf(reg, k) == CHOOSE i \in 1..Len(reg) : reg[i].key = k

\* dict assignment: an existing key keeps its position, a new key goes last
DictSet(reg, k, c, s) ==
    IF k \in Keys(reg)
    THEN [reg EXCEPT ![IndexOf(reg, k)] = Reg(k, c, s)]
    ELSE Append(reg, Reg(k, c, s))

Found(cls, type) == [err |-> "", cls |-> cls, type |-> type]
NotFound == [err |-> "ConverterError", cls |-> "", type |-> ""]
Raised(e) == [err |-> e, cls |-> "", type |-> ""]

\* the for loop of get_converter over _converters.items(), from position i
RECURSIVE ScanSubclass(_, _, _)
ScanSubclass(reg, origin, i) ==
    IF i > Len(reg) THEN NotFound
    ELSE IF ~reg[i].sub THEN ScanSubclass(reg, origin, i + 1)
    ELSE IF _any_issubclass(origin, reg[i].key).err # ""
         THEN Raised(_any_issubclass(origin, reg[i].key).err)
    ELSE IF _any_issubclass(origin, reg[i].key).val THEN Found(reg[i].conv, origin)
    ELSE ScanSubclass(reg, origin, i + 1)

\* the descriptor get_converter looks up: left alternative, then its origin
Origin(type_) ==
    LET origin == _get_left(type_)
        origin_ == get_origin(origin)
    IN IF origin_ # "" THEN origin_ ELSE origin.name

\* the body of get_converter, without the lru_cache wrapper
Resolve(reg, type_) ==
    LET origin == Origin(type_)
    IN IF origin \in Keys(reg)
       THEN Found(reg[IndexOf(reg, origin)].conv, origin)
       ELSE ScanSubclass(reg, origin, 1)

\* ------------------------------------------------- get_converter, cached
NoInst == [id |-> -1, cls |-> "", type |-> ""]
NoHint == [kind |-> "", name |-> "", args |-> <<>>]

\* Converter.__init__: a new object of class cls bound to type
NewConverter(id, cls, type) == [id |-> id, cls |-> cls, type |-> type]

\* equality (and hash) of the lru_cache key: typing unions compare as the
\* set of their alternatives, every other hint compares as itself
KeyEq(a, b) ==
    IF a.kind = "union" /\ b.kind = "union"
    THEN {a.args[i] : i \in 1..Len(a.args)} = {b.args[i] : i \in 1..Len(b.args)}
    ELSE a = b

\* position of the cache entry for key, 0 when there is none
CacheIndex(c, key) ==
    IF \E i \in 1..Len(c) : KeyEq(c[i].key, key)
    THEN CHOOSE i \in 1..Len(c) : KeyEq(c[i].key, key)
    ELSE 0

RemoveAt(q, i) == SubSeq(q, 1, i - 1) \o SubSeq(q, i + 1, Len(q))

\* lru_cache: a hit moves the entry to the most recent end
CacheTouch(c, i) == Append(RemoveAt(c, i), c[i])

\* lru_cache: a new result evicts the least recent entry when the cache is full
CacheStore(c, key, inst) ==
    Append(IF Len(c) >= CacheMaxSize THEN Tail(c) ELSE c, [key |-> key, inst |-> inst])

CallRec(op, hint, hit, err, inst) ==
    [op |-> op, hint |-> hint, hit |-> hit, err |-> err, inst |-> inst]

\* The registry state: R.reg is _converters, R.cache the lru_cache of
\* get_converter (least recent first), R.nextId the identity of the next
\* converter object, R.returned the objects get_converter returned so far,
\* R.last the most recent call.
RegState(reg, c, id, ret, l) ==
    [reg |-> reg, cache |-> c, nextId |-> id, returned |-> ret, last |-> l]

Got(R, err, inst) == [R |-> R, err |-> err, inst |-> inst]

\* one call get_converter(type_) in registry state R: the answer and the
\* registry state after it.  A call that raises leaves the cache as it was.
Lookup(R, type_) ==
    LET i == CacheIndex(R.cache, type_)
        r == Resolve(R.reg, type_)
        inst == NewConverter(R.nextId, r.cls, r.type)
    IN IF i # 0
       THEN Got(RegState(R.reg, CacheTouch(R.cache, i), R.nextId,
                         Append(R.returned, R.cache[i].inst),
                         CallRec("get", type_, TRUE, "", R.cache[i].inst)),
                "", R.cache[i].inst)
       ELSE IF r.err # ""
       THEN Got([R EXCEPT !.last = CallRec("get", type_, FALSE, r.err, NoInst)],
                r.err, NoInst)
       ELSE Got(RegState(R.reg, CacheStore(R.cache, type_, inst), R.nextId + 1,
                         Append(R.returned, inst),
                         CallRec("get", type_, FALSE, "", inst)),
                "", inst)

\* the element of a one-element set; {e(x) : x \in {d}} computes d once, for
\* each step of a call in turn, as the code does
The(S) == CHOOSE x \in S : TRUE

\* ------------------------------------------ Python's number conversions
\* int(x), float(x) and str(x), which self.type(enum) runs when the converter
\* is bound to int, float or str.  Natural numbers of any size are sequences
\* of limbs below Base, least significant limb first, without leading zeros.
Base == 32768

MinOf(S) == CHOOSE x \in S : \A y \in S : x <= y
MaxOf(S) == CHOOSE x \in S : \A y \in S : y <= x

BTrim(a) == SubSeq(a, 1, MaxOf({0} \cup {i \in 1..Len(a) : a[i] # 0}))

BLimb(a, i) == IF i <= Len(a) THEN a[i] ELSE 0

\* the limbs of 0 <= n < 2^31
BOfInt(n) == BTrim(<<n % Base, (n \div Base) % Base, n \div (Base * Base)>>)

\* a + b: limb i takes a carry when a lower limb overflows and every limb
\* between passes the carry on
BAdd(a, b) ==
    The({ BTrim([i \in 1..Len(x) |->
                    (x[i] + (IF \E j \in 1..(i - 1) :
                                    /\ x[j] >= Base
                                    /\ \A k \in (j + 1)..(i - 1) : x[k] = Base - 1
                             THEN 1 ELSE 0)) % Base])
          : x \in {[i \in 1..((IF Len(a) > Len(b) THEN Len(a) ELSE Len(b)) + 1) |->
                       BLimb(a, i) + BLimb(b, i)]} })

\* a - b, for a >= b
BSub(a, b) ==
    BTrim([i \in 1..Len(a) |->
              (a[i] - BLimb(b, i) + Base
               - (IF \E j \in 1..(i - 1) :
                         /\ a[j] < BLimb(b, j)
                         /\ \A k \in (j + 1)..(i - 1) : a[k] = BLimb(b, k)
                  THEN 1 ELSE 0)) % Base])

\* a * m + c, for 0 <= m < Base
BMulAdd(a, m, c) ==
    BAdd(BAdd([i \in 1..Len(a) |-> (a[i] * m) % Base],
              <<0>> \o [i \in 1..Len(a) |-> (a[i] * m) \div Base]),
         BOfInt(c))

RECURSIVE BMul(_, _)
BMul(a, b) ==
    IF Len(b) = 0 THEN <<>>
    ELSE IF Len(b) = 1 THEN BMulAdd(a, b[1], 0)
    ELSE The({ BAdd(BMul(a, lo), Rep(0, Len(lo)) \o BMul(a, hi))
               : lo \in {SubSeq(b, 1, Len(b) \div 2)},
                 hi \in {SubSeq(b, Len(b) \div 2 + 1, Len(b))} })

\* -1, 0, 1 as a is less than, equal to, greater than b
BCmp(a, b) ==
    IF Len(a) # Len(b) THEN (IF Len(a) < Len(b) THEN -1 ELSE 1)
    ELSE IF a = b THEN 0
    ELSE LET i == CHOOSE j \in 1..Len(a) :
                      a[j] # b[j] /\ \A k \in (j + 1)..Len(a) : a[k] = b[k]
         IN IF a[i] < b[i] THEN -1 ELSE 1

\* a * 2^k
BShl(a, k) ==
    IF a = <<>> THEN a ELSE Rep(0, k \div 15) \o BMulAdd(a, 2^(k % 15), 0)

\* a \div 2
BHalf(a) ==
    BTrim([i \in 1..Len(a) |->
              a[i] \div 2 + (IF i < Len(a) THEN (a[i + 1] % 2) * (Base \div 2) ELSE 0)])

BBitLen(a) == IF a = <<>> THEN 0 ELSE 15 * (Len(a) - 1) + bit_length(a[Len(a)])

BOdd(a) == a # <<>> /\ a[1] % 2 = 1

\* 10^k
RECURSIVE BPow10(_)
BPow10(k) ==
    IF k <= 4 THEN <<10^k>>
    ELSE The({ BMul(p, IF k % 2 = 0 THEN p ELSE BMulAdd(p, 10, 0))
               : p \in {BPow10(k \div 2)} })

BTimesPow10(a, k) == IF k = 0 THEN a ELSE BMul(a, BPow10(k))

\* the number the digits ds write, most significant first
RECURSIVE ParseDigits(_, _)
ParseDigits(acc, ds) ==
    IF ds = <<>> THEN acc ELSE ParseDigits(10 * acc + Head(ds), Tail(ds))

\* the same, of any size
RECURSIVE BOfDigits(_)
BOfDigits(ds) ==
    IF Len(ds) <= 4 THEN BOfInt(ParseDigits(0, ds))
    ELSE The({ BAdd(BMul(BOfDigits(hi), BPow10(Len(lo))), BOfDigits(lo))
               : hi \in {SubSeq(ds, 1, Len(ds) \div 2)},
                 lo \in {SubSeq(ds, Len(ds) \div 2 + 1, Len(ds))} })

\* bit j of a, and the 16-bit word k of a
BBit(a, j) == IF j \div 15 + 1 > Len(a) THEN 0 ELSE (a[j \div 15 + 1] \div 2^(j % 15)) % 2
BWord(a, k) == BitsVal([i \in 1..16 |-> BBit(a, 16 * k + 16 - i)])

\* how many times s goes into n, for n < top * s
BDigit(n, s, top) == Cardinality({d \in 1..(top - 1) : BCmp(BMulAdd(s, d, 0), n) <= 0})

\* quotient and remainder of n by m, the quotient below 16^j: one base-16
\* digit of the quotient at a time
RECURSIVE BQuoRem(_, _, _, _)
BQuoRem(n, m, j, q) ==
    IF j = 0 THEN [q |-> q, r |-> n]
    ELSE The({ The({ BQuoRem(n2, m, j - 1, q2)
                     : n2 \in {BSub(n, BMulAdd(s, d, 0))}, q2 \in {BMulAdd(q, 16, d)} })
               : s \in {BShl(m, 4 * (j - 1))}, d \in {BDigit(n, BShl(m, 4 * (j - 1)), 16)} })

\* str(n) of an int
RECURSIVE Digits(_)
Digits(n) ==
    IF n < 0 THEN <<45>> \o Digits(-n)
    ELSE IF n < 10 THEN <<48 + n>> ELSE Digits(n \div 10) \o <<48 + (n % 10)>>

\* the characters int() and float() skip around a numeral
WhiteSpace == {9, 10, 11, 12, 13, 32, 133, 160}

\* s from its first to its last character that is not white space
Strip(s) ==
    LET keep == {i \in 1..Len(s) : s[i] \notin WhiteSpace}
    IN IF keep = {} THEN <<>> ELSE SubSeq(s, MinOf(keep), MaxOf(keep))

HasSign(s) == s # <<>> /\ Head(s) \in {43, 45}
Unsigned(s) == IF HasSign(s) THEN Tail(s) ELSE s

\* digits, with single underscores allowed between two digits
IsDigitRun(s) ==
    /\ s # <<>>
    /\ \A i \in 1..Len(s) : s[i] \in 48..57 \/ s[i] = 95
    /\ s[1] # 95 /\ s[Len(s)] # 95
    /\ \A i \in 1..(Len(s) - 1) : ~(s[i] = 95 /\ s[i + 1] = 95)

\* the values of the digits of a digit run
DigitsOf(s) ==
    LET t == SelectSeq(s, LAMBDA c : c # 95) IN [i \in 1..Len(t) |-> t[i] - 48]

StripZeros(ds) ==
    LET nz == {i \in 1..Len(ds) : ds[i] # 0}
    IN IF nz = {} THEN <<>> ELSE SubSeq(ds, MinOf(nz), Len(ds))

StripZerosRight(ds) ==
    LET nz == {i \in 1..Len(ds) : ds[i] # 0}
    IN IF nz = {} THEN <<>> ELSE SubSeq(ds, 1, MaxOf(nz))

\* the number the digits ds write, cut off at cap
RECURSIVE ParseDigitsUpTo(_, _, _)
ParseDigitsUpTo(cap, acc, ds) ==
    IF ds = <<>> \/ acc >= cap THEN (IF acc >= cap THEN cap ELSE acc)
    ELSE ParseDigitsUpTo(cap, 10 * acc + Head(ds), Tail(ds))

Parsed(n) == [ok |-> TRUE, n |-> n]
NotParsed == [ok |-> FALSE, n |-> 0]

\* int(s) of a str, base 10
int_of_str(s) ==
    LET t == Strip(s)
        u == Unsigned(t)
        n == ParseDigits(0, StripZeros(DigitsOf(u)))
    IN IF ~IsDigitRun(u) THEN NotParsed
       ELSE Parsed(IF t[1] = 45 THEN -n ELSE n)

\* int(x) of a float given by its words, truncating; x finite, below 2^31
IntOfDouble(w) ==
    LET e == (w[1] % 32768) \div 16
        k == e - 1023
        f20 == (w[1] % 16) * 65536 + w[2]
        a == IF k <= 20 THEN 2^k + f20 \div 2^(20 - k)
             ELSE (2^20 + f20) * 2^(k - 20) + w[3] \div 2^(36 - k)
    IN IF e < 1023 THEN 0 ELSE IF w[1] >= 32768 THEN -a ELSE a

IsInf(w) == (w[1] % 32768) \div 16 = 2047 /\ w[1] % 16 = 0 /\ w[2] = 0 /\ w[3] = 0 /\ w[4] = 0
IsNaN(w) == (w[1] % 32768) \div 16 = 2047 /\ ~IsInf(w)

Inf(neg) == <<(IF neg THEN 32768 ELSE 0) + 32752, 0, 0, 0>>
NaN(neg) == <<(IF neg THEN 32768 ELSE 0) + 32760, 0, 0, 0>>
Zero(neg) == <<IF neg THEN 32768 ELSE 0, 0, 0, 0>>

\* the double nearest to n / m, ties to even, as words
RoundToDouble(neg, n, m) ==
    LET e0 == BBitLen(n) - BBitLen(m) - 53
        e2 == IF e0 < -1074 THEN -1074 ELSE e0
    IN The({ The({
        LET big == BBitLen(qr.q) = 54
            q1 == IF big THEN BHalf(qr.q) ELSE qr.q
            c == BCmp(BMulAdd(qr.r, 2, 0), m2)
            up == IF big THEN BOdd(qr.q) /\ (qr.r # <<>> \/ BOdd(q1))
                  ELSE c > 0 \/ (c = 0 /\ BOdd(q1))
        IN The({ IF BCmp(x, BShl(BOfInt(2047), 52)) >= 0 THEN Inf(neg)
                 ELSE <<BWord(x, 3) + (IF neg THEN 32768 ELSE 0),
                        BWord(x, 2), BWord(x, 1), BWord(x, 0)>>
                 : x \in {BAdd(BShl(BOfInt((IF big THEN e2 + 1 ELSE e2) + 1074), 52),
                               BAdd(q1, IF up THEN <<1>> ELSE <<>>))} })
        : qr \in {BQuoRem(n2, m2, 14, <<>>)} })
        : n2 \in {IF e2 < 0 THEN BShl(n, -e2) ELSE n},
          m2 \in {IF e2 > 0 THEN BShl(m, e2) ELSE m} })

Lower(s) == [i \in 1..Len(s) |-> IF s[i] \in 65..90 THEN s[i] + 32 ELSE s[i]]

\* position of the first c in s, Len(s) + 1 when there is none
First(s, c) == MinOf({i \in 1..Len(s) : s[i] = c} \cup {Len(s) + 1})

ParsedF(w) == [ok |-> TRUE, w |-> w]
NotParsedF == [ok |-> FALSE, w |-> Zero(FALSE)]

\* float(s) of a str
float_of_str(s) ==
    LET t == Strip(s)
        neg == t # <<>> /\ t[1] = 45
        u == Unsigned(t)
        pe == First(Lower(u), 101)
        mant == SubSeq(u, 1, pe - 1)
        ex == SubSeq(u, pe + 1, Len(u))
        pd == First(mant, 46)
        ip == SubSeq(mant, 1, pd - 1)
        fp == SubSeq(mant, pd + 1, Len(mant))
        wellFormed ==
            /\ ip = <<>> \/ IsDigitRun(ip)
            /\ fp = <<>> \/ IsDigitRun(fp)
            /\ ip # <<>> \/ fp # <<>>
            /\ pe <= Len(u) => IsDigitRun(Unsigned(ex))
        fd == IF fp = <<>> THEN <<>> ELSE DigitsOf(fp)
        d0 == StripZeros((IF ip = <<>> THEN <<>> ELSE DigitsOf(ip)) \o fd)
        ds == StripZerosRight(d0)
        xv == IF pe <= Len(u)
              THEN ParseDigitsUpTo(100000, 0, StripZeros(DigitsOf(Unsigned(ex))))
              ELSE 0
        e == (IF HasSign(ex) /\ ex[1] = 45 THEN -xv ELSE xv) - Len(fd) + (Len(d0) - Len(ds))
    IN IF Lower(u) \in {<<105, 110, 102>>, <<105, 110, 102, 105, 110, 105, 116, 121>>}
       THEN ParsedF(Inf(neg))
       ELSE IF Lower(u) = <<110, 97, 110>> THEN ParsedF(NaN(neg))
       ELSE IF ~wellFormed THEN NotParsedF
       ELSE IF ds = <<>> THEN ParsedF(Zero(neg))
       ELSE IF Len(ds) + e > 310 THEN ParsedF(Inf(neg))
       ELSE IF Len(ds) + e < -324 THEN ParsedF(Zero(neg))
       ELSE ParsedF(RoundToDouble(neg,
                        BTimesPow10(BOfDigits(ds), IF e > 0 THEN e ELSE 0),
                        BPow10(IF e < 0 THEN -e ELSE 0)))

\* Shortest decimal digits that read back as the double f * 2^e (f > 0):
\* the digit generation state is the value r / s left to write, with the
\* distances mp / s and mm / s to the neighbouring doubles, 10^k the weight
\* of the next digit; even tells whether the neighbours' midpoints read back.
Gen(r, s, mp, mm, k) == [r |-> r, s |-> s, mp |-> mp, mm |-> mm, k |-> k]

GenStart(f, e, gap) ==
    IF e >= 0
    THEN Gen(BShl(f, e + (IF gap THEN 2 ELSE 1)), IF gap THEN <<4>> ELSE <<2>>,
             BShl(<<1>>, e + (IF gap THEN 1 ELSE 0)), BShl(<<1>>, e), 0)
    ELSE Gen(BShl(f, IF gap THEN 2 ELSE 1), BShl(<<1>>, (IF gap THEN 2 ELSE 1) - e),
             IF gap THEN <<2>> ELSE <<1>>, <<1>>, 0)

\* g with its weight set to 10^k, k near the decimal exponent of the value
GenEstimate(g, k) ==
    IF k >= 0 THEN Gen(g.r, BTimesPow10(g.s, k), g.mp, g.mm, k)
    ELSE The({ Gen(BMul(g.r, p), g.s, BMul(g.mp, p), BMul(g.mm, p), k)
               : p \in {BPow10(-k)} })

\* the upper neighbour's midpoint reaches the next power of ten
AtLeast(a, b, even) == IF even THEN BCmp(a, b) >= 0 ELSE BCmp(a, b) > 0

RECURSIVE GenScaleUp(_, _)
GenScaleUp(g, even) ==
    IF AtLeast(BAdd(g.r, g.mp), g.s, even)
    THEN The({ GenScaleUp(h, even)
               : h \in {Gen(g.r, BMulAdd(g.s, 10, 0), g.mp, g.mm, g.k + 1)} })
    ELSE g

RECURSIVE GenScaleDown(_, _)
GenScaleDown(g, even) ==
    IF ~AtLeast(BMulAdd(BAdd(g.r, g.mp), 10, 0), g.s, even)
    THEN The({ GenScaleDown(h, even)
               : h \in {Gen(BMulAdd(g.r, 10, 0), g.s, BMulAdd(g.mp, 10, 0),
                            BMulAdd(g.mm, 10, 0), g.k - 1)} })
    ELSE g

\* the state digit generation starts in
Scaled(f, e, gap) ==
    The({ The({ The({ GenScaleDown(g2, ~BOdd(f)) : g2 \in {GenScaleUp(g1, ~BOdd(f))} })
                : g1 \in {GenEstimate(g0, ((e + BBitLen(f) - 1) * 30103) \div 100000)} })
          : g0 \in {GenStart(f, e, gap)} })

RECURSIVE GenDigits(_, _)
GenDigits(g, even) ==
    The({
        LET low == IF even THEN BCmp(r, mm) <= 0 ELSE BCmp(r, mm) < 0
            high == AtLeast(BAdd(r, mp), g.s, even)
        IN IF ~low /\ ~high
           THEN The({ <<d>> \o GenDigits(h, even) : h \in {Gen(r, g.s, mp, mm, g.k)} })
           ELSE IF low /\ ~high THEN <<d>>
           ELSE IF ~low /\ high THEN <<d + 1>>
           ELSE IF BCmp(BMulAdd(r, 2, 0), g.s) < 0 THEN <<d>> ELSE <<d + 1>>
        : d \in {BDigit(BMulAdd(g.r, 10, 0), g.s, 10)},
          r \in {BSub(BMulAdd(g.r, 10, 0),
                      BMulAdd(g.s, BDigit(BMulAdd(g.r, 10, 0), g.s, 10), 0))},
          mp \in {BMulAdd(g.mp, 10, 0)},
          mm \in {BMulAdd(g.mm, 10, 0)} })

\* repr(x) of a float given by its words
float_repr(w) ==
    LET neg == w[1] >= 32768
        be == (w[1] % 32768) \div 16
        hi == w[1] % 16
        fracZero == hi = 0 /\ w[2] = 0 /\ w[3] = 0 /\ w[4] = 0
        f == BMulAdd(BMulAdd(BMulAdd(BMulAdd(BMulAdd(BMulAdd(
                 BOfInt(hi + (IF be > 0 THEN 16 ELSE 0)),
                 256, 0), 256, w[2]), 256, 0), 256, w[3]), 256, 0), 256, w[4])
        e == IF be = 0 THEN -1074 ELSE be - 1075
        sign == IF neg THEN <<45>> ELSE <<>>
    IN IF be = 2047 THEN (IF fracZero THEN sign \o <<105, 110, 102>> ELSE <<110, 97, 110>>)
       ELSE IF be = 0 /\ fracZero THEN sign \o <<48, 46, 48>>
       ELSE The({
           LET chars == [i \in 1..Len(ds) |-> 48 + ds[i]]
               n == Len(ds)
               x == g.k - 1
           IN sign \o
              (IF g.k <= -4 \/ g.k > 16
               THEN <<chars[1]>> \o (IF n > 1 THEN <<46>> \o Tail(chars) ELSE <<>>)
                    \o <<101, IF x < 0 THEN 45 ELSE 43>>
                    \o (IF x > -10 /\ x < 10 THEN <<48>> ELSE <<>>)
                    \o Digits(IF x < 0 THEN -x ELSE x)
               ELSE IF g.k <= 0 THEN <<48, 46>> \o Rep(48, -g.k) \o chars
               ELSE IF g.k >= n THEN chars \o Rep(48, g.k - n) \o <<46, 48>>
               ELSE SubSeq(chars, 1, g.k) \o <<46>> \o SubSeq(chars, g.k + 1, n))
           : g \in {Scaled(f, e, be > 1 /\ fracZero)},
             ds \in {GenDigits(Scaled(f, e, be > 1 /\ fracZero), ~BOdd(f))} })

\* names of the members of the enum classes of the model
EnumName(type, n) ==
    CASE type = "Color" -> IF n = 1 THEN <<82, 69, 68>> ELSE <<66, 76, 85, 69>>
      [] type = "Level" -> IF n = 1 THEN <<65>> ELSE <<66>>

ClassName(type) ==
    CASE type = "Color" -> <<67, 111, 108, 111, 114>>
      [] type = "Level" -> <<76, 101, 118, 101, 108>>

\* str(x)
str_of(x) ==
    CASE x.tag = "str" -> x.s
      [] x.tag = "bool" -> IF x.n = 1 THEN <<84, 114, 117, 101>> ELSE <<70, 97, 108, 115, 101>>
      [] x.tag = "int" -> Digits(x.n)
      [] x.tag = "enum" ->
             IF IsInt(x) THEN Digits(x.n) ELSE ClassName(x.cls) \o <<46>> \o EnumName(x.cls, x.n)
      [] x.tag = "float" -> float_repr(x.s)
      [] OTHER -> <<78, 111, 110, 101>>

Made(val) == [err |-> "", val |-> val]
NotMade(e) == [err |-> e, val |-> NoneV]

\* the call type(x) of a class on one argument: what self.type(enum) and,
\* through from_bytes, self.type.from_bytes(...) construct
Construct(type, x) ==
    CASE type \in {"Color", "Level"} ->
             IF /\ IsInt(x) \/ (x.tag = "enum" /\ x.cls = type)
                /\ x.n \in EnumMembers(type)
             THEN Made(EnumV(type, x.n))
             ELSE IF x.tag = "float" /\ \E m \in EnumMembers(type) : x.s = DoubleOfInt(m)
             THEN Made(EnumV(type, IntOfDouble(x.s)))
             ELSE NotMade("ValueError")
      [] type \in {"int", "MyInt"} ->
             IF IsInt(x) THEN Made(Val("int", type, x.n, <<>>))
             ELSE IF x.tag = "float"
             THEN IF IsInf(x.s) THEN NotMade("OverflowError")
                  ELSE IF IsNaN(x.s) THEN NotMade("ValueError")
                  ELSE Made(Val("int", type, IntOfDouble(x.s), <<>>))
             ELSE IF x.tag = "str"
             THEN IF int_of_str(x.s).ok THEN Made(Val("int", type, int_of_str(x.s).n, <<>>))
                  ELSE NotMade("ValueError")
             ELSE NotMade("TypeError")
      [] type = "bool" -> Made(BoolV(Truthy(x)))
      [] type = "float" ->
             IF IsInt(x) THEN Made(FloatV(DoubleOfInt(x.n)))
             ELSE IF x.tag = "float" THEN Made(x)
             ELSE IF x.tag = "str"
             THEN The({ IF p.ok THEN Made(FloatV(p.w)) ELSE NotMade("ValueError")
                        : p \in {float_of_str(x.s)} })
             ELSE NotMade("TypeError")
      [] type = "str" -> Made(StrV(str_of(x)))
      [] OTHER -> NotMade("TypeError")

\* type.from_bytes(b, "little"): only int and its subclasses have it
TypeFromBytes(type, b) ==
    IF type # "int" /\ "int" \notin Bases(type) THEN NotMade("AttributeError")
    ELSE Construct(type, IntV(from_bytes(b)))

\* ---------------------------------- converters that call get_converter
ToR(R, t) == [R |-> R, err |-> t.err, out |-> t.out, awaitable |-> t.awaitable]
FromR(R, f) == [R |-> R, err |-> f.err, rem |-> f.rem, val |-> f.val]
ToRes(x) == [err |-> x.err, out |-> x.out, awaitable |-> x.awaitable]
FromRes(x) == [err |-> x.err, rem |-> x.rem, val |-> x.val]


RECURSIVE ToStr(_, _, _)
RECURSIVE from_str(_, _, _)

IntConverter_to_str(R, self, obj) ==
    IF ~IsInt(obj) THEN ToR(R, ToErr("AttributeError"))
    ELSE The({ IF g.err # "" THEN ToR(g.R, ToErr(g.err))
               ELSE IF obj.n < 0 THEN ToR(g.R, ToErr("OverflowError"))
               ELSE ToStr(g.R, g.inst, StrV(to_bytes(obj.n, bit_length(obj.n) \div 8 + 1)))
               : g \in {Lookup(R, ClassHint("str"))} })

EnumConverter_to_str(R, self, obj) ==
    The({ IF g.err # "" THEN ToR(g.R, ToErr(g.err))
          ELSE IF obj.tag # "enum" THEN ToR(g.R, ToErr("AttributeError"))
          ELSE ToStr(g.R, g.inst, IntV(obj.n))
          : g \in {Lookup(R, ClassHint("int"))} })

\* converter.to_str(obj) in registry state R
ToStr(R, conv, obj) ==
    CASE conv.cls = "IntConverter" -> IntConverter_to_str(R, conv, obj)
      [] conv.cls = "EnumConverter" -> EnumConverter_to_str(R, conv, obj)
      [] OTHER -> ToR(R, LeafToStr(conv.cls, obj))

\* what from_str does with the result r of the converter it called: pass an
\* exception on, or return the remainder with the value v made from r's value
Finish(r, v) ==
    IF r.err # "" THEN r
    ELSE IF v.err # "" THEN FromR(r.R, FromErr(v.err))
    ELSE FromR(r.R, FromOk(r.rem, v.val))

IntConverter_from_str(R, self, obj) ==
    The({ IF g.err # "" THEN FromR(g.R, FromErr(g.err))
          ELSE The({ Finish(r, IF r.val.tag # "str"
                                  /\ (self.type = "int" \/ "int" \in Bases(self.type))
                               THEN NotMade("AttributeError")
                               ELSE TypeFromBytes(self.type, r.val.s))
                     : r \in {from_str(g.R, g.inst, obj)} })
          : g \in {Lookup(R, ClassHint("str"))} })

EnumConverter_from_str(R, self, obj) ==
    The({ IF g.err # "" THEN FromR(g.R, FromErr(g.err))
          ELSE The({ Finish(r, Construct(self.type, r.val))
                     : r \in {from_str(g.R, g.inst, obj)} })
          : g \in {Lookup(R, ClassHint("int"))} })

\* converter.from_str(obj) in registry state R, on an interpreter stack with
\* room for every nested call
from_str(R, conv, obj) ==
    CASE conv.cls = "IntConverter" -> IntConverter_from_str(R, conv, obj)
      [] conv.cls = "EnumConverter" -> EnumConverter_from_str(R, conv, obj)
      [] OTHER -> FromR(R, LeafFromStr(conv.cls, obj))

\* The interpreter stack.  A from_str that delegates calls get_converter and
\* then the from_str of the converter it got; a registration can make that
\* converter delegate back, without end.  Nested is how far the nesting has
\* got: the registry state, the converter whose from_str is entered next,
\* the exception get_converter raised, the calls entered so far.
Delegates(conv) == conv.cls \in {"IntConverter", "EnumConverter"}
Delegate(conv) == ClassHint(IF conv.cls = "IntConverter" THEN "str" ELSE "int")
Nested(R, conv, err, depth) == [R |-> R, conv |-> conv, err |-> err, depth |-> depth]

\* the nesting n calls further on, or where it ends before that
RECURSIVE Descend(_, _)
Descend(d, n) ==
    IF n = 0 \/ d.err # "" \/ ~Delegates(d.conv) THEN d
    ELSE IF n = 1
    THEN The({ Nested(g.R, g.inst, g.err, d.depth + 1)
               : g \in {Lookup(d.R, Delegate(d.conv))} })
    ELSE The({ Descend(h, n - n \div 2) : h \in {Descend(d, n \div 2)} })

\* converter.from_str(obj) in registry state R on a stack with room for
\* frames nested from_str calls (the recursion limit less the depth of the
\* caller): the call that finds no room raises RecursionError, after every
\* call above it has made its get_converter call
FromStr(R, conv, obj, frames) ==
    The({ IF d.err = "" /\ d.depth = frames THEN FromR(d.R, FromErr("RecursionError"))
          ELSE from_str(R, conv, obj)
          : d \in {Descend(Nested(R, conv, "", 0), frames)} })

\* ================================================================ state
VARIABLES
    converters,   \* _converters: the registrations, in dict order
    cache,        \* lru_cache of get_converter: <<[key, inst]>>, least recent first
    nextId,       \* identity of the next converter object constructed
    last,         \* the most recent registry call and what it returned
    returned,     \* the converter objects get_converter returned so far, in call order
    nAdds,        \* add_converter calls made after import
    nCalls,       \* get_converter calls made
    rt,           \* the most recent to_str / from_str round trip
    sPc, sCookie, sTypes, sKwargs,   \* serialize: position and arguments
    sStarted,     \* serialize_one coroutines gather has started
    sAwaiting,    \* field index -> fragment, for the coroutines suspended on an awaitable
    sResults,     \* <<[i, out]>>: field index and fragment of the coroutines
                  \* that finished, in the order they finished
    sFailed,      \* the exception of the first coroutine that raised, "" when none did
    sOutcome,     \* what serialize returned or raised
    dPc, dIn, dMap, dFromSer, dTrail,   \* deserialize: position and arguments
    dOutcome      \* what deserialize returned or raised

regVars == <<converters, cache, nextId, last, returned, nAdds, nCalls>>
serVars == <<sPc, sCookie, sTypes, sKwargs, sStarted, sAwaiting, sResults, sFailed, sOutcome>>
desVars == <<dPc, dIn, dMap, dFromSer, dTrail, dOutcome>>
vars == <<regVars, rt, serVars, desVars>>

\* the registry state the variables hold, and its update
CurR == RegState(converters, cache, nextId, returned, last)

SetR(R) ==
    /\ converters' = R.reg
    /\ cache' = R.cache
    /\ nextId' = R.nextId
    /\ returned' = R.returned
    /\ last' = R.last

get_converter(type_) ==
    /\ nCalls < MaxCalls
    /\ nCalls' = nCalls + 1
    /\ SetR(Lookup(CurR, type_).R)
    /\ UNCHANGED <<nAdds, rt, serVars, desVars>>

add_converter(t, converter, supports_subclass) ==
    /\ nAdds < MaxAdds
    /\ converters' = DictSet(converters, t, converter, supports_subclass)
    /\ cache' = <<>>
    /\ nAdds' = nAdds + 1
    /\ last' = CallRec("add", ClassHint(t), FALSE, "", NoInst)
    /\ UNCHANGED <<nextId, returned, nCalls, rt, serVars, desVars>>

\* ---------------------------------------------------- idle parts of the state
NoTo == ToErr("")
NoFrom == FromErr("")
EmptyArgs == [k \in {} |-> NoneV]
NoOutcome == [err |-> "", out |-> <<>>]
NoDes == [err |-> "", component |-> "", args |-> EmptyArgs, resolved |-> 0, calls |-> 0]

InitRegistry ==
    /\ converters = BuiltinConverters
    /\ cache = <<>>
    /\ nextId = 0
    /\ last = CallRec("", NoHint, FALSE, "", NoInst)
    /\ returned = <<>>
    /\ nAdds = 0
    /\ nCalls = 0

InitRt == rt = [type |-> "", val |-> NoneV, trail |-> <<>>, enc |-> NoTo, dec |-> NoFrom]

InitSer ==
    /\ sPc = "idle"
    /\ sCookie = <<>>
    /\ sTypes = <<>>
    /\ sKwargs = EmptyArgs
    /\ sStarted = 0
    /\ sAwaiting = EmptyArgs
    /\ sResults = <<>>
    /\ sFailed = ""
    /\ sOutcome = NoOutcome

InitDes ==
    /\ dPc = "idle"
    /\ dIn = <<>>
    /\ dMap = EmptyArgs
    /\ dFromSer = FALSE
    /\ dTrail = <<>>
    /\ dOutcome = NoDes

\* ------------------------------------------------ the registry on its own
\* keys, converter classes and hints the calls are drawn from
AddKeys == {"Foo", "int", "MyInt", "Literal"}
AddConverters == {"DeferredConverter"}

Hints ==
    {ClassHint(c) : c \in {"int", "bool", "MyInt", "Level", "Color", "Foo"}}
    \cup {AliasHint("Literal")}
    \cup {UnionHint(ClassHint("int"), ClassHint("str")),
          UnionHint(ClassHint("str"), ClassHint("int"))}

Init == InitRegistry /\ InitRt /\ InitSer /\ InitDes

NextRegistry ==
    \/ \E h \in Hints : get_converter(h)
    \/ \E t \in AddKeys, c \in AddConverters, b \in BOOLEAN : add_converter(t, c, b)

SpecRegistry == Init /\ [][NextRegistry]_vars

\* ------------------------------------------------- registry: properties
Outcome(c) == [err |-> c.err, cls |-> c.inst.cls, type |-> c.inst.type]

\* what a get_converter(h) call made in the current state would answer
Answer(h) ==
    IF CacheIndex(cache, h) # 0
    THEN Found(cache[CacheIndex(cache, h)].inst.cls, cache[CacheIndex(cache, h)].inst.type)
    ELSE Resolve(converters, h)

\* C6 (as claimed): every get_converter(h) call answers what an uncached
\* resolution of h against the current registry answers: the same converter
\* class bound to the same type, or the same ConverterError.
C6_CacheCoherent ==
    last.op = "get" => Outcome(last) = Resolve(converters, last.hint)

\* C7 (as claimed): no two get_converter calls ever return the same converter
\* object.
C7_NeverShared ==
    \A i, j \in 1..Len(returned) : i # j => returned[i].id # returned[j].id

\* C9 (as claimed): resolving a class S.  An exact registration for S wins.
\* Without one, when S is a strict subclass of registered keys, the answer is
\* the converter class of the first registration in dict order among those
\* keys that has supports_subclass set, bound to S; when none of them has it,
\* the call fails with ConverterError, so a registration without
\* supports_subclass is never used for S.
C9_SubclassFallback ==
    (last.op = "get" /\ last.hint.kind = "class") =>
        LET S == last.hint.name
            based == {i \in 1..Len(converters) : converters[i].key \in Bases(S)}
            elig == {i \in based : converters[i].sub}
            first == CHOOSE i \in elig : \A j \in elig : i <= j
        IN /\ S \in Keys(converters) =>
                  Outcome(last) = Found(converters[IndexOf(converters, S)].conv, S)
           /\ (S \notin Keys(converters) /\ based # {}) =>
                  IF elig = {}
                  THEN last.err = "ConverterError"
                  ELSE Outcome(last) = Found(converters[first].conv, S)

\* C10 (as claimed): a get_converter call on a union hint answers what
\* get_converter on the first alternative of that hint answers.
C10_UnionIsLeft ==
    (last.op = "get" /\ _is_union(last.hint)) =>
        Outcome(last) = Answer(last.hint.args[1])

\* ======================================================= codec round trips
Trails == UNION {[1..n -> {0, 120}] : n \in 0..MaxTrail}

Pi == <<16393, 7864, 20971, 34079>>      \* 3.14 = 0x40091EB851EB851F

RtValues(type) ==
    CASE type = "str" ->
             {StrV(<<>>), StrV(<<120>>), StrV(<<104, 105>>), StrV(<<0>>),
              StrV(Rep(97, 3)), StrV(Rep(97, 255)), StrV(Rep(97, 256))}
      [] type = "float" ->
             {FloatV(Pi), FloatV(<<0, 0, 0, 0>>), FloatV(<<32768, 0, 0, 0>>),
              FloatV(<<16368, 0, 0, 0>>), FloatV(<<32760, 0, 0, 0>>)}
      [] type = "int" -> {IntV(n) : n \in {-1, 0, 5, 255, 256, 300, 65536}}
      [] type = "bool" -> {BoolV(TRUE), BoolV(FALSE)}
      [] type = "Color" -> {EnumV("Color", 1), EnumV("Color", 2)}

\* conv = get_converter(type); conv.from_str(conv.to_str(v) + r)
RoundTrip(type, v, r) ==
    /\ rt.type = ""
    /\ \E g \in {Lookup(CurR, ClassHint(type))} :
         /\ g.err = ""
         /\ \E enc \in {ToStr(g.R, g.inst, v)} :
            \E dec \in {IF enc.err = "" THEN FromStr(enc.R, g.inst, enc.out \o r, MaxStack)
                        ELSE FromR(enc.R, NoFrom)} :
               /\ rt' = [type |-> type, val |-> v, trail |-> r,
                         enc |-> ToRes(enc), dec |-> FromRes(dec)]
               /\ SetR(dec.R)
    /\ UNCHANGED <<nAdds, nCalls, serVars, desVars>>

NextCodec ==
    \E type \in {"str", "float", "int", "bool", "Color"} :
        \E v \in RtValues(type), r \in Trails : RoundTrip(type, v, r)

SpecCodec == Init /\ [][NextCodec]_vars

\* C1 (as claimed): for a string s of length 0..255 and any trailing r,
\* StringConverter.from_str(StringConverter.to_str(s) + r) returns (r, s).
C1_StringRoundTrip ==
    (rt.type = "str" /\ Len(rt.val.s) <= 255) =>
        (rt.enc.err = "" /\ rt.dec = FromOk(rt.trail, rt.val))

\* C3 (as claimed): FloatConverter.to_str(v) is 8 characters long and
\* FloatConverter.from_str(to_str(v) + r) returns (r, v).
C3_FloatRoundTrip ==
    rt.type = "float" =>
        (rt.enc.err = "" /\ Len(rt.enc.out) = 8 /\ rt.dec = FromOk(rt.trail, rt.val))

\* ============================================================== serialize
FieldName(i) == <<"a", "b", "c", "d">>[i]
Field(k, v) == [k |-> k, v |-> v]

\* get_converter(v).to_str(val), as serialize_one evaluates it
FieldToStr(R, v, val) ==
    The({ IF g.err # "" THEN ToR(g.R, ToErr(g.err)) ELSE ToStr(g.R, g.inst, val)
          : g \in {Lookup(R, v)} })

\* kwargs.get(k)
DictGet(d, k) == IF k \in DOMAIN d THEN d[k] ELSE NoneV

\* variant: the size check also rejects an identifier of exactly the limit
TooLongOffByOne(out) == Len(out) >= MaxCustomIdLen

\* the size check of serialize
TooLong(out) == Len(out) > MaxCustomIdLen

\* "".join(fragments)
RECURSIVE Join(_)
Join(frags) ==
    IF frags = <<>> THEN <<>> ELSE Head(frags) \o Join(Tail(frags))

\* what a finished coroutine hands to the gather
Result(i, out) == [i |-> i, out |-> out]

\* variant: the results in the order the awaitables completed
gather_as_completed(done, n) == [j \in 1..n |-> done[j].out]

\* gather_iter: the results of the n awaitables in the order the awaitables
\* were passed, whatever the order done in which they completed
gather_iter(done, n) ==
    [i \in 1..n |-> done[CHOOSE j \in 1..Len(done) : done[j].i = i].out]

serialize(cookie, types, kwargs) ==
    /\ sPc = "idle"
    /\ sPc' = "gather"
    /\ sCookie' = cookie
    /\ sTypes' = types
    /\ sKwargs' = kwargs
    /\ UNCHANGED <<sStarted, sAwaiting, sResults, sFailed, sOutcome>>
    /\ UNCHANGED <<regVars, rt, desVars>>

\* the event loop runs the next serialize_one coroutine up to its first
\* await.  All coroutines were scheduled before any of them ran, so one that
\* raises does not keep the later ones from running this step.
serialize_one ==
    /\ sPc = "gather"
    /\ sStarted < Len(sTypes)
    /\ \E i \in {sStarted + 1} :
       \E tmp \in {FieldToStr(CurR, sTypes[i].v, DictGet(sKwargs, sTypes[i].k))} :
          /\ sStarted' = i
          /\ SetR(tmp.R)
          /\ IF tmp.err # ""
             THEN /\ sFailed' = IF sFailed = "" THEN tmp.err ELSE sFailed
                  /\ UNCHANGED <<sAwaiting, sResults>>
             ELSE IF tmp.awaitable
             THEN /\ sAwaiting' = (i :> tmp.out) @@ sAwaiting
                  /\ UNCHANGED <<sResults, sFailed>>
             ELSE /\ sResults' = Append(sResults, Result(i, tmp.out))
                  /\ UNCHANGED <<sAwaiting, sFailed>>
    /\ UNCHANGED <<sPc, sCookie, sTypes, sKwargs, sOutcome>>
    /\ UNCHANGED <<nAdds, nCalls, rt, desVars>>

\* the awaitable a suspended serialize_one waits on completes
serialize_one_resume(i) ==
    /\ sPc = "gather"
    /\ i \in DOMAIN sAwaiting
    /\ sAwaiting' = [j \in DOMAIN sAwaiting \ {i} |-> sAwaiting[j]]
    /\ sResults' = Append(sResults, Result(i, sAwaiting[i]))
    /\ UNCHANGED <<sPc, sCookie, sTypes, sKwargs, sStarted, sFailed, sOutcome>>
    /\ UNCHANGED <<regVars, rt, desVars>>

\* the gather completed: with the first exception a coroutine raised, which
\* serialize lets through, or with every fragment, which serialize joins and
\* checks for size
serialize_return ==
    /\ sPc = "gather"
    /\ sStarted = Len(sTypes)
    /\ sFailed # "" \/ DOMAIN sAwaiting = {}
    /\ sOutcome' = IF sFailed # "" THEN [err |-> sFailed, out |-> <<>>]
                   ELSE IF TooLong(Join(gather_iter(sResults, Len(sTypes))))
                   THEN [err |-> "SerializerError", out |-> <<>>]
                   ELSE [err |-> "", out |-> Join(gather_iter(sResults, Len(sTypes)))]
    /\ sPc' = "done"
    /\ UNCHANGED <<sCookie, sTypes, sKwargs, sStarted, sAwaiting, sResults, sFailed>>
    /\ UNCHANGED <<regVars, rt, desVars>>

\* ============================================================ deserialize
Component(name, annotations) == [name |-> name, annotations |-> annotations]
NoComponent == Component("", <<>>)

\* variant: an unknown cookie falls back to some registered component
component_map_get_fallback(component_map, cookie) ==
    IF cookie \in DOMAIN component_map THEN component_map[cookie]
    ELSE component_map[CHOOSE c \in DOMAIN component_map : TRUE]

\* component_map.get(cookie); NoComponent stands for None
component_map_get(component_map, cookie) ==
    IF cookie \in DOMAIN component_map THEN component_map[cookie] ELSE NoComponent

DesResult(err, component, args, resolved, calls) ==
    [err |-> err, component |-> component, args |-> args,
     resolved |-> resolved, calls |-> calls]

DesOut(R, res) == [R |-> R, res |-> res]

\* the for loop of deserialize over _dataclass_annotations.items(), from
\* field i; resolved and calls count the get_converter and from_str calls made
RECURSIVE DeserializeFields(_, _, _, _, _, _, _)
DeserializeFields(R, component_, i, custom_id, args, n, frames) ==
    IF i > Len(component_.annotations)
    THEN DesOut(R, DesResult("", component_.name, args, n.resolved, n.calls))
    ELSE The({
        IF g.err # ""
        THEN DesOut(g.R, DesResult(g.err, "", EmptyArgs, n.resolved + 1, n.calls))
        ELSE The({
            IF r.err # ""
            THEN DesOut(r.R, DesResult(r.err, "", EmptyArgs, n.resolved + 1, n.calls + 1))
            ELSE DeserializeFields(r.R, component_, i + 1, r.rem,
                                   (component_.annotations[i].k :> r.val) @@ args,
                                   [resolved |-> n.resolved + 1, calls |-> n.calls + 1],
                                   frames)
            : r \in {FromStr(g.R, g.inst, custom_id, frames)} })
        : g \in {Lookup(R, component_.annotations[i].v)} })

deserialize(R, custom_id, component_map, frames) ==
    The({
        IF g.err # "" THEN DesOut(g.R, DesResult(g.err, "", EmptyArgs, 0, 0))
        ELSE The({
            IF r.err # "" THEN DesOut(r.R, DesResult(r.err, "", EmptyArgs, 0, 0))
            ELSE IF r.val.tag # "str"
            THEN DesOut(r.R, DesResult("AssertionError", "", EmptyArgs, 0, 0))
            ELSE IF component_map_get(component_map, r.val.s) = NoComponent
            THEN DesOut(r.R, DesResult("SerializerError", "", EmptyArgs, 0, 0))
            ELSE DeserializeFields(r.R, component_map_get(component_map, r.val.s), 1,
                                   r.rem, EmptyArgs, [resolved |-> 0, calls |-> 0], frames)
            : r \in {FromStr(g.R, g.inst, custom_id, frames)} })
        : g \in {Lookup(R, ClassHint("str"))} })

\* deserialize of an identifier received from outside
DeserializeCall(custom_id, component_map) ==
    /\ dPc = "idle"
    /\ sPc = "idle"
    /\ dPc' = "done"
    /\ dIn' = custom_id
    /\ dMap' = component_map
    /\ \E d \in {deserialize(CurR, dIn', dMap', MaxStack)} :
         /\ dOutcome' = d.res
         /\ SetR(d.R)
    /\ UNCHANGED <<dFromSer, dTrail>>
    /\ UNCHANGED <<nAdds, nCalls, rt, serVars>>

\* deserialize of the identifier built from the cookie and the string that
\* serialize returned, followed by x
DeserializeSerialized(x, component_map) ==
    /\ dPc = "idle"
    /\ sPc = "done"
    /\ sOutcome.err = ""
    /\ dPc' = "done"
    /\ dFromSer' = TRUE
    /\ dTrail' = x
    /\ dIn' = StringConverter_to_str(StrV(sCookie)).out \o sOutcome.out \o x
    /\ dMap' = component_map
    /\ \E d \in {deserialize(CurR, dIn', dMap', MaxStack)} :
         /\ dOutcome' = d.res
         /\ SetR(d.R)
    /\ UNCHANGED <<nAdds, nCalls, rt, serVars>>

\* ------------------------------------------------------- inputs of the codec
IntStrSchema == <<Field("a", ClassHint("int")), Field("b", ClassHint("str"))>>

ComponentMaps ==
    { (<<>> :> Component("Empty", IntStrSchema))
        @@ (<<97, 98>> :> Component("Btn", IntStrSchema))
        @@ (<<99>> :> Component("One", <<Field("a", ClassHint("str"))>>)),
      (<<99>> :> Component("Pair", <<Field("a", ClassHint("bool")), Field("b", ClassHint("int"))>>)) }

Cookies == {<<>>, <<97, 98>>}

\* identifiers in the layout from_str reads: one length character, then data
RawIds ==
    { <<>>, <<0>>, <<1, 122>>, <<1, 99>>, <<1, 99, 1, 120>>, <<1, 99, 116, 1, 5, 7>>,
      <<2, 97, 98, 1, 5, 1, 120>>, <<2, 97, 98, 1, 5, 1, 120, 0>>,
      <<2, 97, 122, 1, 5, 1, 120>>, <<2, 97, 98, 2, 44, 1>> }

FieldTypes == {"int", "str", "Token", "float", "Foo"}

FieldValues(type) ==
    CASE type = "int" -> {IntV(-1), IntV(5), IntV(300)}
      [] type = "str" -> {StrV(<<>>), StrV(<<120>>), StrV(Rep(97, 44)), StrV(Rep(97, 97))}
      [] type = "Token" -> {StrV(<<104, 105>>), StrV(Rep(120, 48)), StrV(Rep(120, 96))}
      [] type = "float" -> {FloatV(Pi), IntV(5)}
      [] OTHER -> {NoneV}

AllFieldValues == UNION {FieldValues(t) : t \in FieldTypes}

\* the registry after a program registered its asynchronous converter
InitSerde ==
    /\ converters = DictSet(BuiltinConverters, "Token", "DeferredConverter", FALSE)
    /\ cache = <<>>
    /\ nextId = 0
    /\ last = CallRec("", NoHint, FALSE, "", NoInst)
    /\ returned = <<>>
    /\ nAdds = 0
    /\ nCalls = 0
    /\ InitRt /\ InitSer /\ InitDes

NextSerde ==
    \/ /\ sPc = "idle"
       /\ dPc = "idle"
       /\ \E cookie \in Cookies, n \in 0..MaxFields :
         \E ts \in [1..n -> FieldTypes], vs \in [1..n -> AllFieldValues] :
            /\ \A i \in 1..n : vs[i] \in FieldValues(ts[i])
            /\ serialize(cookie,
                             [i \in 1..n |-> Field(FieldName(i), ClassHint(ts[i]))],
                             [k \in {FieldName(i) : i \in 1..n} |->
                                 vs[CHOOSE i \in 1..n : FieldName(i) = k]])
    \/ serialize_one
    \/ \E i \in 1..MaxFields : serialize_one_resume(i)
    \/ serialize_return
    \/ \E id \in RawIds, cm \in ComponentMaps : DeserializeCall(id, cm)
    \/ \E x \in Trails, cm \in ComponentMaps : DeserializeSerialized(x, cm)

SpecSerde == InitSerde /\ [][NextSerde]_vars

\* ---------------------------------------------------- codec: properties
\* the fragment of every field of the schema serialize was called with
Fragments ==
    [i \in 1..Len(sTypes) |->
        ToRes(FieldToStr(CurR, sTypes[i].v, DictGet(sKwargs, sTypes[i].k)))]

FragmentsOk == \A i \in 1..Len(sTypes) : Fragments[i].err = ""

RECURSIVE SumLen(_, _)
SumLen(fr, i) == IF i > Len(fr) THEN 0 ELSE Len(fr[i].out) + SumLen(fr, i + 1)

RECURSIVE SchemaOrderConcat(_, _)
SchemaOrderConcat(fr, i) ==
    IF i > Len(fr) THEN <<>> ELSE fr[i].out \o SchemaOrderConcat(fr, i + 1)

\* C2 (as claimed): for a cookie c of the component map whose schema is
\* {a: int, b: str}, deserialize(to_str(c) + serialize(c, schema, {a, b}) + x)
\* returns the component registered for c and exactly {a, b}, whatever x is.
C2_SerializeDeserialize ==
    (/\ dPc = "done"
     /\ dFromSer
     /\ sTypes = IntStrSchema
     /\ sCookie \in DOMAIN dMap
     /\ dMap[sCookie].annotations = IntStrSchema) =>
        /\ dOutcome.err = ""
        /\ dOutcome.component = dMap[sCookie].name
        /\ dOutcome.args = sKwargs

C5_UnknownCookie ==
    dPc = "done" =>
        LET c == StringConverter_from_str(dIn)
        IN (c.err = "" /\ c.val.s \notin DOMAIN dMap) =>
               dOutcome = DesResult("SerializerError", "", EmptyArgs, 0, 0)

C5_Witness ==
    /\ dPc = "done"
    /\ dIn = <<2, 97, 122, 1, 5, 1, 120>>
    /\ <<97, 98>> \in DOMAIN dMap
    /\ dOutcome.err = "SerializerError"
    /\ dOutcome.calls = 0

====
